---------------------------- MODULE Spec2Model ----------------------------
(***************************************************************************)
(* A model of oxidizehttp's HTTP/1.1 request-head reader: the byte-level   *)
(* tokenizer (src/src/lexer.rs) and the two-token-lookahead parser         *)
(* (src/src/parser.rs).                                                    *)
(*                                                                         *)
(* Bytes are their u8 values, texts (Rust Strings, always ASCII here) are  *)
(* sequences of bytes, and the cursor of the Peekable<slice::Iter<u8>> is  *)
(* the number of bytes already taken from the buffer.                      *)
(***************************************************************************)
EXTENDS Integers, Sequences, FiniteSets, TLC

VARIABLES
    buf,     \* the byte buffer the Peekable iterates over (never written)
    pos,     \* Lexer.peekable: how many bytes of buf have been taken
    curr,    \* Parser.curr
    next,    \* Parser.next
    nlex,    \* history: number of Lexer::lex calls made so far
    nwalk,   \* history: number of Parser::walk calls made so far
    op,      \* history: the operation called last ("new" after construction)
    out,     \* history: what the last operation returned
    pre,     \* history: pos, curr, next, nlex, nwalk just before the last call
    trace,   \* history (lexer alone): the result of every lex call, in order
    items,   \* history (lexer alone): the items Iterator::next has yielded
    ended    \* history (lexer alone): Iterator::next has returned None

vars == <<buf, pos, curr, next, nlex, nwalk, op, out, pre, trace, items, ended>>

---------------------------------------------------------------------------
(* Bytes                                                                   *)

NUL == 0
LFb == 10
CRb == 13
SP == 32
DQUOTEb == 34
SLASHb == 47
COLONb == 58

\* u8::is_ascii_alphabetic, u8::is_ascii_digit, u8::is_ascii_alphanumeric
is_ascii_alphabetic(u) == u \in 65..90 \/ u \in 97..122
is_ascii_digit(u) == u \in 48..57
is_ascii_alphanumeric(u) == is_ascii_alphabetic(u) \/ is_ascii_digit(u)

\* The fifteen mark characters, each with the TCharKind variant lex gives it.
TCharOf ==
    [u \in {33, 35, 36, 37, 38, 39, 42, 43, 45, 46, 94, 95, 96, 124, 126} |->
        CASE u = 33 -> "ExclamationMark"
          [] u = 35 -> "Hash"
          [] u = 36 -> "DollarSign"
          [] u = 37 -> "Percent"
          [] u = 38 -> "And"
          [] u = 39 -> "SQuote"
          [] u = 42 -> "Star"
          [] u = 43 -> "Plus"
          [] u = 45 -> "Min"
          [] u = 46 -> "Dot"
          [] u = 94 -> "Circumflex"
          [] u = 95 -> "Underscore"
          [] u = 96 -> "Backquote"
          [] u = 124 -> "Pipe"
          [] u = 126 -> "Tilde"]

is_tchar(u) == u \in DOMAIN TCharOf
\* mutant: digits belong to runs too
is_tkn_or_digit(u) == is_ascii_alphanumeric(u) \/ is_tchar(u)

is_tkn(u) == is_ascii_alphabetic(u) \/ is_tchar(u)

---------------------------------------------------------------------------
(* Tokens: TokenKind, with TCharKind and DelimiterKind folded in.  `sub' is *)
(* the inner variant's name and `val' the payload: the text of a Token, the *)
(* value of a Digit, the byte of an Alpha.  Equality of these records is    *)
(* the derived PartialEq.                                                   *)

Tk(kind, sub, val) == [kind |-> kind, sub |-> sub, val |-> val]

Token(s) == Tk("Token", "", s)
Char(c) == Tk("Char", c, <<>>)
Digit(d) == Tk("Char", "Digit", <<d>>)
Alpha(a) == Tk("Char", "Alpha", <<a>>)
Delimiter(d) == Tk("Delimiter", d, <<>>)
DQuote == Tk("DQuote", "", <<>>)
CR == Tk("CR", "", <<>>)
LF == Tk("LF", "", <<>>)
CRLF == Tk("CRLF", "", <<>>)
Space == Tk("Space", "", <<>>)
Bad == Tk("Bad", "", <<>>)
Eof == Tk("Eof", "", <<>>)

---------------------------------------------------------------------------
(* Lexer.  Every operator takes the buffer and the cursor and gives the     *)
(* token returned and the cursor afterwards.                                *)

\* Peekable::peek: the byte at the cursor, -1 for None.
Peek(b, p) == IF p < Len(b) THEN b[p + 1] ELSE -1

\* Lexer::eat: Peekable::next, which leaves an exhausted cursor where it is.
eat(b, p) == IF p < Len(b) THEN p + 1 ELSE p

just(b, p, tk) == [tok |-> tk, pos |-> eat(b, p)]

RECURSIVE Accu(_, _, _)
Accu(b, p, seq) ==
    IF Peek(b, p) # -1 /\ is_tkn(Peek(b, p))
    THEN Accu(b, eat(b, p), Append(seq, Peek(b, p)))
    ELSE [tok |-> Token(seq), pos |-> p]

accu_token(b, p) == Accu(b, p, <<>>)

\* mutant: the digit is read but not eaten
digit_not_eaten(b, p) == [tok |-> Digit(Peek(b, p) - 48), pos |-> p]

\* One byte is pushed to a String and parsed as a u8: its decimal value.
digit(b, p) == [tok |-> Digit(Peek(b, p) - 48), pos |-> eat(b, p)]

lex(b, p) ==
    IF Peek(b, p) = -1 THEN [tok |-> Eof, pos |-> p]
    ELSE LET u == Peek(b, p) IN
        CASE u = NUL -> just(b, p, Eof)
          [] u = SP -> just(b, p, Space)
          [] is_tchar(u) -> just(b, p, Char(TCharOf[u]))
          [] u = DQUOTEb -> just(b, p, DQuote)
          [] u = COLONb -> just(b, p, Delimiter("Colon"))
          [] u = SLASHb -> just(b, p, Delimiter("Slash"))
          [] u = CRb ->
                LET p1 == eat(b, p) IN
                IF Peek(b, p1) = LFb THEN just(b, p1, CRLF) ELSE just(b, p1, CR)
          [] u = LFb -> just(b, p, LF)
          [] is_ascii_digit(u) -> digit(b, p)
          [] is_ascii_alphanumeric(u) /\ ~is_ascii_digit(u) ->
                \* the second peek looks at the same byte again: nothing was eaten
                LET v == Peek(b, p) IN
                IF v # -1 /\ is_ascii_alphanumeric(v) THEN accu_token(b, p)
                ELSE just(b, eat(b, p), Alpha(u))
          [] OTHER -> just(b, p, Bad)


\* impl Iterator for Lexer: next() is lex(), with Eof turned into None.
\* mutant: a Bad token ends the iteration too
iter_next_stops_at_bad(b, p) ==
    LET l == lex(b, p) IN
    [some |-> l.tok \notin {Eof, Bad}, tok |-> l.tok, pos |-> l.pos]

iter_next(b, p) ==
    LET l == lex(b, p) IN
    [some |-> l.tok # Eof, tok |-> l.tok, pos |-> l.pos]

---------------------------------------------------------------------------
(* Rendering (impl ToString).  `panic' is the unreachable!() of Bad and Eof. *)

RECURSIVE Dec(_)
\* u8's Display: decimal digits
Dec(n) == IF n < 10 THEN <<48 + n>> ELSE Dec(n \div 10) \o <<48 + (n % 10)>>

\* char's Display: the UTF-8 encoding of the code point (char::from(u8) < 256)
CharText(a) == IF a < 128 THEN <<a>> ELSE <<192 + (a \div 64), 128 + (a % 64)>>

TCharKind_to_string(tk) ==
    CASE tk.sub = "ExclamationMark" -> <<33>>
      [] tk.sub = "Hash" -> <<35>>
      [] tk.sub = "DollarSign" -> <<36>>
      [] tk.sub = "Percent" -> <<37>>
      [] tk.sub = "And" -> <<38>>
      [] tk.sub = "SQuote" -> <<39>>
      [] tk.sub = "Star" -> <<42>>
      [] tk.sub = "Plus" -> <<43>>
      [] tk.sub = "Min" -> <<45>>
      [] tk.sub = "Dot" -> <<46>>
      [] tk.sub = "Circumflex" -> <<94>>
      [] tk.sub = "Underscore" -> <<95>>
      [] tk.sub = "Backquote" -> <<92>>    \* "\\": a backslash
      [] tk.sub = "Pipe" -> <<124>>
      [] tk.sub = "Tilde" -> <<126>>
      [] tk.sub = "Digit" -> Dec(tk.val[1])
      [] tk.sub = "Alpha" -> CharText(tk.val[1])

DelimiterKind_to_string(tk) ==
    CASE tk.sub = "LParen" -> <<40>>
      [] tk.sub = "RParen" -> <<41>>
      [] tk.sub = "Comma" -> <<44>>
      [] tk.sub = "Slash" -> <<47>>
      [] tk.sub = "Colon" -> <<58>>
      [] tk.sub = "Semicolon" -> <<59>>
      [] tk.sub = "GT" -> <<62>>
      [] tk.sub = "Equal" -> <<61>>
      [] tk.sub = "LT" -> <<60>>
      [] tk.sub = "QuestionMark" -> <<63>>
      [] tk.sub = "At" -> <<64>>
      [] tk.sub = "LBracket" -> <<91>>
      [] tk.sub = "Backslash" -> <<92>>
      [] tk.sub = "RBracket" -> <<93>>
      [] tk.sub = "LBrace" -> <<123>>
      [] tk.sub = "RBrace" -> <<125>>

to_string(tk) ==
    CASE tk.kind = "Token" -> [panic |-> FALSE, s |-> tk.val]
      [] tk.kind = "Char" -> [panic |-> FALSE, s |-> TCharKind_to_string(tk)]
      [] tk.kind = "Delimiter" -> [panic |-> FALSE, s |-> DelimiterKind_to_string(tk)]
      [] tk.kind = "DQuote" -> [panic |-> FALSE, s |-> <<DQUOTEb>>]
      [] tk.kind = "CR" -> [panic |-> FALSE, s |-> <<CRb>>]
      [] tk.kind = "LF" -> [panic |-> FALSE, s |-> <<LFb>>]
      [] tk.kind = "CRLF" -> [panic |-> FALSE, s |-> <<CRb, LFb>>]
      [] tk.kind = "Space" -> [panic |-> FALSE, s |-> <<SP>>]
      [] tk.kind \in {"Bad", "Eof"} -> [panic |-> TRUE, s |-> <<>>]

---------------------------------------------------------------------------
(* Parser.  A parser state is [pos, curr, next, nlex, nwalk]: the lexer's   *)
(* cursor, the two-token window and the two call counters.  An operation    *)
(* gives a record whose p is the state it leaves and whose res is "ok",     *)
(* "err" (an Err(ParseErr) was returned) or "panic".                        *)

GETs == <<71, 69, 84>>            \* "GET"
POSTs == <<80, 79, 83, 84>>       \* "POST"
HTTPs == <<72, 84, 84, 80>>       \* "HTTP"

new(b) ==
    LET l1 == lex(b, 0)
        l2 == lex(b, l1.pos)
    IN [pos |-> l2.pos, curr |-> l1.tok, next |-> l2.tok, nlex |-> 2, nwalk |-> 0]

\* mutant: the advance returns the token it makes current, not the one that was
walk_returns_new_curr(b, p) ==
    LET l == lex(b, p.pos) IN
    [p |-> [pos |-> l.pos, curr |-> p.next, next |-> l.tok,
            nlex |-> p.nlex + 1, nwalk |-> p.nwalk + 1],
     ret |-> p.next]

walk(b, p) ==
    LET l == lex(b, p.pos) IN
    [p |-> [pos |-> l.pos, curr |-> p.next, next |-> l.tok,
            nlex |-> p.nlex + 1, nwalk |-> p.nwalk + 1],
     ret |-> p.curr]

expect_token(b, p) ==
    IF p.curr.kind = "Token"
    THEN [res |-> "ok", s |-> p.curr.val, err |-> <<>>, p |-> walk(b, p).p]
    ELSE [res |-> "err", s |-> <<>>, err |-> <<"Was expected a Token">>, p |-> p]

\* mutant: tokens are compared by variant only, payloads ignored
expect_ignores_payload(b, p, tk) ==
    IF p.curr.kind = tk.kind /\ p.curr.sub = tk.sub
    THEN [res |-> "ok", tok |-> p.curr, err |-> <<>>, p |-> walk(b, p).p]
    ELSE [res |-> "err", tok |-> Eof, err |-> <<"Expected, found", tk, p.curr>>, p |-> p]

expect(b, p, tk) ==
    IF p.curr = tk
    THEN [res |-> "ok", tok |-> p.curr, err |-> <<>>, p |-> walk(b, p).p]
    ELSE [res |-> "err", tok |-> Eof, err |-> <<"Expected, found", tk, p.curr>>, p |-> p]

curr_is(p, tk) == p.curr = tk

\* mutant: the space after the colon is never skipped
opt_space_never(b, p) == p

RECURSIVE opt_space_all(_, _)
\* mutant: every space is skipped, not just one
opt_space_all(b, p) == IF curr_is(p, Space) THEN opt_space_all(b, walk(b, p).p) ELSE p

opt_space(b, p) == IF curr_is(p, Space) THEN walk(b, p).p ELSE p

\* the match on the text expect_token gave
method_of(e) ==
    [m |-> IF e.res = "ok"
           THEN (CASE e.s = GETs -> "GET" [] e.s = POSTs -> "POST" [] OTHER -> "BAD")
           ELSE "BAD",
     p |-> e.p]

\* mutant: a run token that names no known method is left in the window
method_keeps_unknown(b, p) ==
    IF p.curr.kind = "Token" /\ p.curr.val \in {GETs, POSTs}
    THEN method_of(expect_token(b, p))
    ELSE [m |-> "BAD", p |-> p]

method(b, p) == method_of(expect_token(b, p))

RECURSIVE path(_, _, _)
path(b, p, s) ==
    LET w == walk(b, p) IN
    CASE w.ret = DQuote ->
            [res |-> "panic", s |-> s, err |-> <<"not yet implemented">>, p |-> w.p]
      [] w.ret \in {Space, CRLF, Eof} ->
            [res |-> "ok", s |-> s, err |-> <<>>, p |-> w.p]
      [] w.ret = Bad ->
            [res |-> "err", s |-> s, err |-> <<"Bad token found">>, p |-> w.p]
      [] OTHER -> path(b, w.p, s \o to_string(w.ret).s)

(* http_1_1, one operator for each statement: an operator takes the result  *)
(* of the statement before it and either returns early (the ? operator) or  *)
(* goes on to the next statement.                                           *)

VsnFail(e) == [res |-> "err", vsn |-> "", err |-> e.err, p |-> e.p]

vsn_end(b, one2) ==
    IF one2.res # "ok" THEN VsnFail(one2)
    ELSE [res |-> "ok", vsn |-> "HTTP1_1", err |-> <<>>, p |-> one2.p]

vsn_one2(b, dot) ==
    IF dot.res # "ok" THEN VsnFail(dot) ELSE vsn_end(b, expect(b, dot.p, Digit(1)))

vsn_dot(b, one) ==
    IF one.res # "ok" THEN VsnFail(one) ELSE vsn_one2(b, expect(b, one.p, Char("Dot")))

vsn_one(b, slash) ==
    IF slash.res # "ok" THEN VsnFail(slash) ELSE vsn_dot(b, expect(b, slash.p, Digit(1)))

\* mutant: the text of the run token is not compared with "HTTP"
vsn_slash_any_text(b, http) ==
    IF http.res # "ok" THEN VsnFail(http)
    ELSE vsn_one(b, expect(b, http.p, Delimiter("Slash")))

vsn_slash(b, http) ==
    IF http.res # "ok" THEN VsnFail(http)
    ELSE IF http.s # HTTPs
    THEN [res |-> "err", vsn |-> "", err |-> <<"Expected 'HTTP' token">>, p |-> http.p]
    ELSE vsn_one(b, expect(b, http.p, Delimiter("Slash")))

http_1_1(b, p) == vsn_slash(b, expect_token(b, p))

(* request_line, in the same way.                                           *)

\* An early return of request_line (the ? operator) or a panic inside it.
LineFail(r) ==
    [res |-> r.res, method |-> "", path |-> <<>>, vsn |-> "", err |-> r.err, p |-> r.p]

line_end(b, m, pa, v, nl) ==
    IF nl.res # "ok" THEN LineFail(nl)
    ELSE [res |-> "ok", method |-> m.m, path |-> pa.s, vsn |-> v.vsn, err |-> <<>>,
          p |-> nl.p]

line_crlf(b, m, pa, v) ==
    IF v.res # "ok" THEN LineFail(v) ELSE line_end(b, m, pa, v, expect(b, v.p, CRLF))

line_version(b, m, pa) ==
    IF pa.res # "ok" THEN LineFail(pa) ELSE line_crlf(b, m, pa, http_1_1(b, pa.p))

line_path(b, m, sp) ==
    IF sp.res # "ok" THEN LineFail(sp) ELSE line_version(b, m, path(b, sp.p, <<>>))

\* mutant: spaces between method and path are normalised (one more is skipped)
line_space_skips(b, m) == line_path(b, m, expect(b, opt_space(b, m.p), Space))

line_space(b, m) == line_path(b, m, expect(b, m.p, Space))

request_line(b, p) == line_space(b, method(b, p))

(* headers.                                                                 *)

\* HashMap<String, String>: a function from the keys to their values.
EmptyMap == [k \in {} |-> <<>>]
\* mutant: a key already present keeps its first value
insert_keeps_first(h, k, v) ==
    [n \in (DOMAIN h) \cup {k} |-> IF n \in DOMAIN h THEN h[n] ELSE v]

insert(h, k, v) == [n \in (DOMAIN h) \cup {k} |-> IF n = k THEN v ELSE h[n]]

RECURSIVE header_value(_, _, _)
\* the inner while: walk().to_string() is appended until curr is CRLF
header_value(b, p, val) ==
    IF curr_is(p, CRLF) THEN [res |-> "ok", val |-> val, p |-> p]
    ELSE LET w == walk(b, p)
             t == to_string(w.ret)
         IN IF t.panic THEN [res |-> "panic", val |-> val, p |-> w.p]
            ELSE header_value(b, w.p, val \o t.s)

LinesFail(res, h, err, p) == [res |-> res, headers |-> h, err |-> err, p |-> p]

RECURSIVE header_lines(_, _, _)

hl_insert(b, h, tk, v, nl) ==
    IF nl.res # "ok" THEN LinesFail("err", h, nl.err, nl.p)
    ELSE header_lines(b, nl.p, insert(h, tk.s, v.val))

hl_crlf(b, h, tk, v) ==
    IF v.res # "ok" THEN LinesFail("panic", h, <<"unreachable">>, v.p)
    ELSE hl_insert(b, h, tk, v, expect(b, v.p, CRLF))

hl_value(b, h, tk, colon) ==
    IF colon.res # "ok" THEN LinesFail("err", h, colon.err, colon.p)
    ELSE hl_crlf(b, h, tk, header_value(b, opt_space(b, colon.p), <<>>))

hl_colon(b, h, tk) ==
    IF tk.res # "ok" THEN LinesFail("err", h, tk.err, tk.p)
    ELSE hl_value(b, h, tk, expect(b, tk.p, Delimiter("Colon")))

\* the outer while
header_lines(b, p, h) ==
    IF curr_is(p, CRLF) THEN [res |-> "ok", headers |-> h, err |-> <<>>, p |-> p]
    ELSE hl_colon(b, h, expect_token(b, p))

HeadFail(r) ==
    [res |-> r.res, method |-> "", path |-> <<>>, vsn |-> "", headers |-> EmptyMap,
     err |-> r.err, p |-> r.p]

entity(rl, hs) ==
    IF hs.res # "ok" THEN HeadFail(hs)
    ELSE [res |-> "ok", method |-> rl.method, path |-> rl.path, vsn |-> rl.vsn,
          headers |-> hs.headers, err |-> <<>>, p |-> hs.p]

headers_loop(b, rl) ==
    IF rl.res # "ok" THEN HeadFail(rl) ELSE entity(rl, header_lines(b, rl.p, EmptyMap))

headers(b, p) == headers_loop(b, request_line(b, p))

---------------------------------------------------------------------------
(* The buffers the parser is run on.                                        *)

MaxPath == 2     \* longest path text of a generated request line
MaxVal == 2      \* longest value text of a generated header line
MaxHdrs == 2     \* most header lines of a generated head
MaxShort == 2    \* longest buffer of arbitrary bytes a parser is built over
MaxLen == 3      \* longest buffer of arbitrary bytes a lone lexer is run on
MaxWalk == 3     \* an operation is started only after fewer walks than this
ExtraLex == 2    \* lex calls made on a lone lexer beyond the buffer's length

RECURSIVE SeqsUpTo(_, _)
\* every sequence over S of length 0..n
SeqsUpTo(S, n) ==
    IF n = 0 THEN {<<>>}
    ELSE LET T == SeqsUpTo(S, n - 1) IN
         T \cup {Append(t, x) : t \in {u \in T : Len(u) = n - 1}, x \in S}

RECURSIVE Spaces(_)
Spaces(n) == IF n = 0 THEN <<>> ELSE <<SP>> \o Spaces(n - 1)

RECURSIVE Concat(_)
\* the concatenation of a sequence of texts
Concat(ss) == IF ss = <<>> THEN <<>> ELSE Head(ss) \o Concat(Tail(ss))

FETCHs == <<70, 69, 84, 67, 72>>                  \* "FETCH"
HTTP11s == HTTPs \o <<47, 49, 46, 49>>            \* "HTTP/1.1"
CRLFs == <<CRb, LFb>>

\* a NUL, a space, a letter, a digit, a mark, CR, LF, an unknown byte
LexBytes == {NUL, SP, 97, 49, 96, CRb, LFb, 63}
\* '/', 'x', '1', '`', '"', '?'
PathBytes == {SLASHb, 120, 49, 96, DQUOTEb, 63}
\* 'a', '1', '.', ':', '?'
ValBytes == {97, 49, 46, COLONb, 63}
\* "Hi", "hi", "K"
Names == {<<72, 105>>, <<104, 105>>, <<75>>}
\* "HTTP/1.1" and near misses of it
VersionTexts ==
    {HTTP11s,
     HTTPs \o <<47, 50, 46, 48>>,        \* HTTP/2.0
     HTTPs \o <<47, 49, 46, 50>>,        \* HTTP/1.2
     HTTPs \o <<47, 49, 45, 49>>,        \* HTTP/1-1
     HTTPs \o <<58, 49, 46, 49>>,        \* HTTP:1.1
     HTTPs \o <<47, 49, 49>>,            \* HTTP/11
     <<72, 84, 84, 88, 47, 49, 46, 49>>, \* HTTX/1.1
     <<104, 116, 116, 112, 47, 49, 46, 49>>, \* http/1.1
     <<47, 49, 46, 49>>,                 \* /1.1
     HTTPs \o <<47, 49, 46>>}            \* HTTP/1.

PathTexts == SeqsUpTo(PathBytes, MaxPath) \ {<<>>}
ValTexts ==
    SeqsUpTo(ValBytes, MaxVal)
        \cup {<<45>>, <<SLASHb>>, <<97, 46, 97>>, <<47, 49, 45, 97>>}  \* - / a.a /1-a

\* METHOD SP PATH SP HTTP/1.1 CRLF, and GET SP SP PATH SP HTTP/1.1 CRLF
RequestLines ==
    {m \o <<SP>> \o pth \o <<SP>> \o HTTP11s \o CRLFs :
        m \in {GETs, POSTs, FETCHs}, pth \in PathTexts}
    \cup {GETs \o <<SP, SP>> \o pth \o <<SP>> \o HTTP11s \o CRLFs :
            pth \in PathTexts \cup {HTTP11s}}

\* GET /x VERSION [CRLF | LF], and the version texts alone
VersionLines ==
    {GETs \o <<SP, SLASHb, 120, SP>> \o v \o e :
        v \in VersionTexts, e \in {CRLFs, <<LFb>>, <<>>}}
    \cup {v \o CRLFs : v \in VersionTexts}

\* NAME ":" spaces VALUE CRLF
HeaderLine(n, k, v) == n \o <<COLONb>> \o Spaces(k) \o v \o CRLFs
FullLines == {HeaderLine(<<72, 105>>, k, v) : k \in 0..2, v \in ValTexts}
PlainLines == {HeaderLine(n, 1, <<v>>) : n \in Names, v \in {97, 49}}

GetRoot == GETs \o <<SP, SLASHb, SP>> \o HTTP11s \o CRLFs   \* "GET / HTTP/1.1\r\n"

\* a request line, header lines, then the blank line, nothing, or a cut-off line
Heads ==
    {GetRoot \o l \o e : l \in FullLines, e \in {CRLFs, <<>>}}
    \cup {GetRoot \o Concat(ls) \o CRLFs : ls \in SeqsUpTo(PlainLines, MaxHdrs)}
    \cup {GetRoot \o n \o <<COLONb, SP>> \o v : n \in Names, v \in {<<>>, <<97>>}}
    \cup {FETCHs \o <<SP, SLASHb, SP>> \o HTTP11s \o CRLFs \o l \o CRLFs : l \in PlainLines}
    \cup {GetRoot \o l \o CRLFs \o <<97>> : l \in {<<>>, HeaderLine(<<75>>, 1, <<97>>)}}

\* buffers that end inside the path: "GET /" and "GET /x"
CutLines == {GETs \o <<SP, SLASHb>>, GETs \o <<SP, SLASHb, 120>>}

ShortBufs == SeqsUpTo(LexBytes, MaxShort)
LexBufs == SeqsUpTo(LexBytes, MaxLen)

Inputs == RequestLines \cup VersionLines \cup Heads \cup CutLines \cup ShortBufs

---------------------------------------------------------------------------
(* The parser as a state machine: a Parser is built over a buffer, and then *)
(* its operations are called in any order.                                  *)

Pst == [pos |-> pos, curr |-> curr, next |-> next, nlex |-> nlex, nwalk |-> nwalk]

Init ==
    /\ buf \in Inputs
    /\ pos = new(buf).pos
    /\ curr = new(buf).curr
    /\ next = new(buf).next
    /\ nlex = new(buf).nlex
    /\ nwalk = new(buf).nwalk
    /\ op = "new"
    /\ out = [res |-> "ok"]
    /\ pre = [pos |-> 0, curr |-> Eof, next |-> Eof, nlex |-> 0, nwalk |-> 0]
    /\ trace = <<>>
    /\ items = <<>>
    /\ ended = FALSE

\* A caller goes on after a call that returned normally (an Err is propagated by
\* its ? and a panic unwinds it), and makes a bounded number of calls.
CanCall == out.res = "ok" /\ nwalk < MaxWalk

\* The state after a call that leaves the parser in p and returns o.
Called(name, p, o) ==
    /\ pos' = p.pos
    /\ curr' = p.curr
    /\ next' = p.next
    /\ nlex' = p.nlex
    /\ nwalk' = p.nwalk
    /\ op' = name
    /\ out' = o
    /\ pre' = Pst
    /\ UNCHANGED <<buf, trace, items, ended>>

\* The tokens a caller asks expect and curr_is for.
AskedTokens == {Space, CRLF, Digit(1), Char("Dot")}

Walk ==
    /\ CanCall
    /\ LET r == walk(buf, Pst) IN Called("walk", r.p, [res |-> "ok", tok |-> r.ret])

ExpectToken ==
    /\ CanCall
    /\ LET r == expect_token(buf, Pst) IN
       Called("expect_token", r.p, [res |-> r.res, s |-> r.s, err |-> r.err])

Expect ==
    /\ CanCall
    /\ \E tk \in AskedTokens :
        LET r == expect(buf, Pst, tk) IN
        Called("expect", r.p, [res |-> r.res, arg |-> tk, tok |-> r.tok, err |-> r.err])

CurrIs ==
    /\ CanCall
    /\ \E tk \in AskedTokens :
        Called("curr_is", Pst, [res |-> "ok", arg |-> tk, is |-> curr_is(Pst, tk)])

OptSpace ==
    /\ CanCall
    /\ Called("opt_space", opt_space(buf, Pst), [res |-> "ok"])

Method ==
    /\ CanCall
    /\ LET r == method(buf, Pst) IN Called("method", r.p, [res |-> "ok", method |-> r.m])

Path ==
    /\ CanCall
    /\ \E s \in {<<>>, <<SLASHb>>} :
        LET r == path(buf, Pst, s) IN
        Called("path", r.p, [res |-> r.res, arg |-> s, s |-> r.s, err |-> r.err])

Http11 ==
    /\ CanCall
    /\ LET r == http_1_1(buf, Pst) IN
       Called("http_1_1", r.p, [res |-> r.res, vsn |-> r.vsn, err |-> r.err])

\* request_line has returned r (the call is evaluated once, as the argument)
LineReturned(r) ==
    Called("request_line", r.p,
           [res |-> r.res, method |-> r.method, path |-> r.path, vsn |-> r.vsn,
            err |-> r.err])

RequestLine ==
    /\ CanCall
    /\ LineReturned(request_line(buf, Pst))

\* headers has returned r
HeadReturned(r) ==
    Called("headers", r.p,
           [res |-> r.res, method |-> r.method, path |-> r.path, vsn |-> r.vsn,
            headers |-> r.headers, err |-> r.err])

Headers ==
    /\ CanCall
    /\ HeadReturned(headers(buf, Pst))

Next ==
    \/ Walk
    \/ ExpectToken
    \/ Expect
    \/ CurrIs
    \/ OptSpace
    \/ Method
    \/ Path
    \/ Http11
    \/ RequestLine
    \/ Headers

Spec == Init /\ [][Next]_vars

---------------------------------------------------------------------------
(* The lexer alone: a Lexer over a buffer whose lex() and next() are called *)
(* in any order; the for-loop protocol stops calling next() at None.        *)

LexInit ==
    /\ buf \in LexBufs
    /\ pos = 0
    /\ curr = Eof
    /\ next = Eof
    /\ nlex = 0
    /\ nwalk = 0
    /\ op = "Lexer::new"
    /\ out = [res |-> "ok"]
    /\ pre = [pos |-> 0, curr |-> Eof, next |-> Eof, nlex |-> 0, nwalk |-> 0]
    /\ trace = <<>>
    /\ items = <<>>
    /\ ended = FALSE

CanLex == nlex < Len(buf) + ExtraLex

LexCall ==
    /\ CanLex
    /\ LET l == lex(buf, pos) IN
        /\ pos' = l.pos
        /\ trace' = Append(trace, l.tok)
        /\ out' = [res |-> "ok", tok |-> l.tok]
    /\ nlex' = nlex + 1
    /\ op' = "lex"
    /\ pre' = Pst
    /\ UNCHANGED <<buf, curr, next, nwalk, items, ended>>

IterNext ==
    /\ CanLex
    /\ ~ended
    /\ LET n == iter_next(buf, pos) IN
        /\ pos' = n.pos
        /\ trace' = Append(trace, n.tok)
        /\ items' = IF n.some THEN Append(items, n.tok) ELSE items
        /\ ended' = ~n.some
        /\ out' = [res |-> "ok", some |-> n.some, tok |-> n.tok]
    /\ nlex' = nlex + 1
    /\ op' = "next"
    /\ pre' = Pst
    /\ UNCHANGED <<buf, curr, next, nwalk>>

LexNext ==
    \/ LexCall
    \/ IterNext

LexSpec == LexInit /\ [][LexNext]_vars

---------------------------------------------------------------------------
(* What a buffer says, read off its bytes (none of this uses the lexer).    *)

RECURSIVE Find(_, _, _)
\* the first index >= from at which b holds x, or 0
Find(b, x, from) ==
    IF from > Len(b) THEN 0
    ELSE IF b[from] = x THEN from ELSE Find(b, x, from + 1)

RECURSIVE FindCRLF(_, _)
\* the first index >= from at which b holds CR LF, or 0
FindCRLF(b, from) ==
    IF from + 1 > Len(b) THEN 0
    ELSE IF b[from] = CRb /\ b[from + 1] = LFb THEN from ELSE FindCRLF(b, from + 1)

RECURSIVE LinesFrom(_, _)
\* the CRLF-terminated lines of b from index from on, without their CRLF
LinesFrom(b, from) ==
    LET i == FindCRLF(b, from) IN
    IF i = 0 THEN <<>> ELSE <<SubSeq(b, from, i - 1)>> \o LinesFrom(b, i + 2)

Lines(b) == LinesFrom(b, 1)

RECURSIVE TotalLen(_)
TotalLen(ls) == IF ls = <<>> THEN 0 ELSE Len(Head(ls)) + 2 + TotalLen(Tail(ls))

\* b is nothing but CRLF-terminated lines
AllLines(b) == TotalLen(Lines(b)) = Len(b)

Bytes(s) == {s[i] : i \in 1..Len(s)}

\* the text of a run token: a letter, then letters and mark characters
IsRunText(s) ==
    /\ s # <<>>
    /\ is_ascii_alphabetic(s[1])
    /\ \A u \in Bytes(s) : is_tkn(u)

\* METHOD SP PATH SP REST: the three parts, when b has two spaces
FirstSP(b) == Find(b, SP, 1)
SecondSP(b) == IF FirstSP(b) = 0 THEN 0 ELSE Find(b, SP, FirstSP(b) + 1)
MethodText(b) == SubSeq(b, 1, FirstSP(b) - 1)
PathText(b) == SubSeq(b, FirstSP(b) + 1, SecondSP(b) - 1)
AfterPath(b) == SubSeq(b, SecondSP(b) + 1, Len(b))
AfterMethod(b) == SubSeq(b, FirstSP(b), Len(b))

MethodName(s) == CASE s = GETs -> "GET" [] s = POSTs -> "POST" [] OTHER -> "BAD"

\* a header line NAME ":" [SP] VALUE
ColonAt(l) == Find(l, COLONb, 1)
NameOf(l) == SubSeq(l, 1, ColonAt(l) - 1)
AfterColon(l) == SubSeq(l, ColonAt(l) + 1, Len(l))
ValueOf(l) ==
    IF AfterColon(l) # <<>> /\ AfterColon(l)[1] = SP THEN Tail(AfterColon(l))
    ELSE AfterColon(l)

\* letters, digits, '.', '-', ':' and '/'
IsValueByte(u) == is_ascii_alphanumeric(u) \/ u \in {46, 45, COLONb, SLASHb}

IsHeaderLine(l) ==
    /\ ColonAt(l) > 1
    /\ IsRunText(NameOf(l))
    /\ \A u \in Bytes(ValueOf(l)) : IsValueByte(u)

\* the header lines of a head: the lines between the request line and the blank line
HeaderLinesOf(b) == SubSeq(Lines(b), 2, Len(Lines(b)) - 1)

\* a valid request line, header lines, and the blank line that ends the buffer
IsHead(b) ==
    /\ AllLines(b)
    /\ Len(Lines(b)) >= 2
    /\ Lines(b)[Len(Lines(b))] = <<>>
    /\ \A i \in 1..Len(HeaderLinesOf(b)) : IsHeaderLine(HeaderLinesOf(b)[i])
    /\ LET rl == Lines(b)[1] \o CRLFs IN request_line(rl, new(rl)).res = "ok"

HeaderNames(b) == {NameOf(HeaderLinesOf(b)[i]) : i \in 1..Len(HeaderLinesOf(b))}

DistinctNames(b) == Cardinality(HeaderNames(b)) = Len(HeaderLinesOf(b))

\* the value on the last line of the head that carries the name n
LastValue(b, n) ==
    LET hl == HeaderLinesOf(b)
        last == CHOOSE i \in 1..Len(hl) :
                    /\ NameOf(hl[i]) = n
                    /\ \A j \in (i + 1)..Len(hl) : NameOf(hl[j]) # n
    IN ValueOf(hl[last])

\* the last call was made on the parser as new built it
OnNew == pre = new(buf)

---------------------------------------------------------------------------
(* Claims                                                                   *)

\* METHOD SP PATH SP "HTTP/1.1" CRLF, METHOD GET or POST, PATH non-empty and free of
\* space, CR, LF and NUL
IsExactRequestLine(b) ==
    /\ FirstSP(b) > 0
    /\ SecondSP(b) > 0
    /\ MethodText(b) \in {GETs, POSTs}
    /\ PathText(b) # <<>>
    /\ Bytes(PathText(b)) \cap {SP, CRb, LFb, NUL} = {}
    /\ AfterPath(b) = HTTP11s \o CRLFs

\* C1: on every buffer METHOD SP PATH SP HTTP/1.1 CRLF (METHOD GET or POST, PATH any
\* non-empty text without space, CR, LF, NUL) request_line succeeds and returns
\* (METHOD, PATH, HTTP1_1), the path being byte for byte the text between the spaces.
C1_ExactRequestLineParses ==
    (op = "request_line" /\ OnNew /\ IsExactRequestLine(buf)) =>
        /\ out.res = "ok"
        /\ out.method = MethodName(MethodText(buf))
        /\ out.path = PathText(buf)
        /\ out.vsn = "HTTP1_1"

\* C2: a call of request_line or headers ends by returning a request entity or by
\* returning a ParseErr; it never ends in a panic.
C2_ParseReturnsEntityOrErr ==
    op \in {"request_line", "headers"} => out.res \in {"ok", "err"}

\* C3: on a head with a valid request line, n >= 0 header lines NAME ":" [SP] VALUE CRLF
\* with pairwise distinct run-token NAMEs and VALUEs of letters, digits, '.', '-', ':'
\* and '/', and the blank line, headers succeeds and the mapping holds exactly the n
\* entries NAME -> VALUE.
C3_HeadersMapsEachLine ==
    (op = "headers" /\ OnNew /\ IsHead(buf) /\ DistinctNames(buf)) =>
        /\ out.res = "ok"
        /\ DOMAIN out.headers = HeaderNames(buf)
        /\ Cardinality(DOMAIN out.headers) = Len(HeaderLinesOf(buf))
        /\ \A i \in 1..Len(HeaderLinesOf(buf)) :
              out.headers[NameOf(HeaderLinesOf(buf)[i])] = ValueOf(HeaderLinesOf(buf)[i])

\* headers has returned the mapping of a head with two header lines
C3_Witness ==
    /\ op = "headers" /\ OnNew /\ IsHead(buf) /\ DistinctNames(buf)
    /\ Len(HeaderLinesOf(buf)) = 2
    /\ out.res = "ok"
    /\ Cardinality(DOMAIN out.headers) = 2

\* where the blank line of the head ends: just past the first CRLF CRLF
BlankLineEnd(b) == FindCRLF(b, FindCRLF(b, 1) + 2) + 1

\* C4: when headers returns successfully the blank line's CRLF has been consumed
\* exactly once: the window has moved just past it, so that curr is the first token
\* after the blank line and next the one after that.
C4_BlankLineConsumedOnce ==
    (op = "headers" /\ OnNew /\ out.res = "ok") =>
        /\ curr = lex(buf, BlankLineEnd(buf)).tok
        /\ pos = lex(buf, lex(buf, BlankLineEnd(buf)).pos).pos

\* METHOD SP SP PATH SP HTTP/1.1 CRLF: a run-token method, two spaces, and a path
\* that is non-empty and free of space, CR, LF and NUL
IsTwoSpaceLine(b) ==
    /\ FirstSP(b) > 1
    /\ IsRunText(MethodText(b))
    /\ SecondSP(b) = FirstSP(b) + 1
    /\ LET r == AfterPath(b)
           e == Find(r, SP, 1)
       IN /\ e > 1
          /\ Bytes(SubSeq(r, 1, e - 1)) \cap {CRb, LFb, NUL} = {}
          /\ SubSeq(r, e + 1, Len(r)) = HTTP11s \o CRLFs

\* C5 as stated: with two spaces between method and path request_line produces a
\* path whose first character is a space.
C5_TwoSpacesGiveLeadingSpace ==
    (op = "request_line" /\ OnNew /\ IsTwoSpaceLine(buf)) =>
        /\ out.res = "ok"
        /\ out.path # <<>>
        /\ out.path[1] = SP

\* C5 (amended): with two spaces between method and path request_line returns an
\* error and no path: a space that is the first token path obtains ends the path at
\* once, with the text unchanged and one token consumed, so the version is looked
\* for in the path's own text.
C5_TwoSpacesFail ==
    /\ (op = "request_line" /\ OnNew /\ IsTwoSpaceLine(buf)) => out.res = "err"
    /\ (op = "path" /\ pre.curr = Space) =>
            /\ out.res = "ok"
            /\ out.s = out.arg
            /\ nwalk = pre.nwalk + 1

\* request_line has failed on "GET  /..." after consuming GET, one space, and the
\* second space as the path's end
C5_Witness ==
    /\ op = "request_line" /\ OnNew /\ IsTwoSpaceLine(buf)
    /\ out.res = "err"
    /\ nwalk >= 3

\* C6: method returns GET for the run text "GET", POST for "POST" and BAD in every
\* other case, never an error; a request line whose method is another run token
\* parses as the same line with GET in its place does, with method BAD and the same
\* path and version.
C6_UnknownMethodIsBad ==
    /\ op = "method" =>
            /\ out.res = "ok"
            /\ out.method =
                 IF pre.curr.kind = "Token" THEN MethodName(pre.curr.val) ELSE "BAD"
    /\ (/\ op = "request_line" /\ OnNew
        /\ FirstSP(buf) > 1
        /\ IsRunText(MethodText(buf))
        /\ MethodText(buf) \notin {GETs, POSTs}) =>
            LET g == GETs \o AfterMethod(buf)
                r == request_line(g, new(g))
            IN /\ out.res = r.res
               /\ r.res = "ok" =>
                    /\ out.method = "BAD"
                    /\ out.path = r.path
                    /\ out.vsn = r.vsn

\* request_line has succeeded on a FETCH line
C6_Witness ==
    /\ op = "request_line" /\ OnNew
    /\ MethodText(buf) = FETCHs
    /\ out.res = "ok"
    /\ out.method = "BAD"
    /\ out.path # <<>>

RECURSIVE LexAt(_, _, _)
\* the i-th token (i >= 1) lex gives from cursor c on
LexAt(b, c, i) == IF i = 1 THEN lex(b, c).tok ELSE LexAt(b, lex(b, c).pos, i - 1)

\* the i-th token (i >= 1) starting at the window's current one
Upcoming(b, p, i) ==
    IF i = 1 THEN p.curr ELSE IF i = 2 THEN p.next ELSE LexAt(b, p.pos, i - 2)

VersionTokens == <<Token(HTTPs), Delimiter("Slash"), Digit(1), Char("Dot"), Digit(1)>>

\* how many of the upcoming tokens match HTTP / 1 . 1 before the first that does not
Matched(b, p) ==
    CHOOSE j \in 0..5 :
        /\ \A i \in 1..j : Upcoming(b, p, i) = VersionTokens[i]
        /\ j < 5 => Upcoming(b, p, j + 1) # VersionTokens[j + 1]

\* C7 as stated: http_1_1 succeeds iff the upcoming tokens are HTTP / 1 . 1; otherwise
\* it returns an error with only the matching tokens consumed and the first
\* mismatching token current.
C7_VersionStopsAtMismatch ==
    op = "http_1_1" =>
        LET j == Matched(buf, pre) IN
        /\ out.res = "ok" <=> j = 5
        /\ out.res = "ok" => out.vsn = "HTTP1_1"
        /\ j < 5 =>
            /\ out.res = "err"
            /\ nwalk = pre.nwalk + j
            /\ curr = Upcoming(buf, pre, j + 1)

\* the tokens http_1_1 consumes before it fails: those that matched, and also a first
\* run token whose text is not "HTTP"
ConsumedOnFail(b, p) ==
    IF Matched(b, p) = 0 /\ p.curr.kind = "Token" THEN 1 ELSE Matched(b, p)

\* C7 (amended): http_1_1 succeeds iff the upcoming tokens are HTTP / 1 . 1 and then
\* gives HTTP1_1; otherwise it returns an error having consumed the tokens that
\* matched, and also the first token when that is a run token with another text.
C7_VersionConsumesRunToken ==
    op = "http_1_1" =>
        LET j == Matched(buf, pre) IN
        /\ out.res = "ok" <=> j = 5
        /\ out.res = "ok" => out.vsn = "HTTP1_1"
        /\ j < 5 =>
            /\ out.res = "err"
            /\ nwalk = pre.nwalk + ConsumedOnFail(buf, pre)
            /\ curr = Upcoming(buf, pre, ConsumedOnFail(buf, pre) + 1)

\* http_1_1 has failed on HTTP/2.0 with the digit 2 still current
C7_Witness ==
    /\ op = "http_1_1"
    /\ out.res = "err"
    /\ Matched(buf, pre) = 2
    /\ curr = Digit(2)

\* C8: a header name that occurs on several lines gets one entry, with the value of
\* its last line; names are compared byte for byte, so case matters.
C8_LastHeaderWins ==
    (op = "headers" /\ OnNew /\ IsHead(buf)) =>
        /\ out.res = "ok"
        /\ DOMAIN out.headers = HeaderNames(buf)
        /\ \A n \in HeaderNames(buf) : out.headers[n] = LastValue(buf, n)

\* headers has returned one entry for a name given twice with different values
C8_Witness ==
    /\ op = "headers" /\ OnNew /\ IsHead(buf)
    /\ out.res = "ok"
    /\ Len(HeaderLinesOf(buf)) = 2
    /\ Cardinality(HeaderNames(buf)) = 1
    /\ ValueOf(HeaderLinesOf(buf)[1]) # ValueOf(HeaderLinesOf(buf)[2])
    /\ Cardinality(DOMAIN out.headers) = 1

RECURSIVE TokensBeforeEof(_, _)
\* the tokens lex gives from cursor c on, up to its first Eof
TokensBeforeEof(b, c) ==
    IF lex(b, c).tok = Eof THEN <<>>
    ELSE <<lex(b, c).tok>> \o TokensBeforeEof(b, lex(b, c).pos)

\* C9: once a lex call has returned Eof every later lex call returns Eof.
C9_EofIsTerminal ==
    \A i \in 1..Len(trace) : \A j \in i..Len(trace) :
        trace[i] = Eof => trace[j] = Eof

\* every call so far was a call of next()
OnlyNext == Len(trace) = Len(items) + (IF ended THEN 1 ELSE 0)

\* C10: on the empty buffer the first lex call gives Eof and the iterator yields no
\* item; the iterator never yields Eof, and driven alone it yields, in order, the
\* tokens lex gives before its first Eof.
C10_IteratorStopsAtEof ==
    /\ (buf = <<>> /\ trace # <<>>) => (trace[1] = Eof /\ items = <<>>)
    /\ \A i \in 1..Len(items) : items[i] # Eof
    /\ OnlyNext =>
        /\ Len(items) <= Len(TokensBeforeEof(buf, 0))
        /\ items = SubSeq(TokensBeforeEof(buf, 0), 1, Len(items))
        /\ ended => items = TokensBeforeEof(buf, 0)

\* the iterator has ended after yielding items, with bytes left behind a NUL
C10_Witness ==
    /\ OnlyNext
    /\ ended
    /\ Len(items) >= 1
    /\ pos < Len(buf)


---------------------------------------------------------------------------
(* The tokenizer's rules, one lex call at a time (the lexer alone).         *)

\* the last step was a lex call, direct or through next()
Lexed == op \in {"lex", "next"}

\* the byte the last lex call found at the cursor, and the one after it (-1: none)
ByteAt == Peek(buf, pre.pos)
ByteAfter == Peek(buf, pre.pos + 1)

\* C11: lex on a letter whose following byte is not alphanumeric (or is missing) gives
\* the single letter token Alpha(c) and consumes one byte; a run token comes only from
\* a letter followed by an alphanumeric byte.
C11_LoneLetterIsAlpha ==
    (Lexed /\ ByteAt # -1 /\ is_ascii_alphabetic(ByteAt)) =>
        IF ByteAfter # -1 /\ is_ascii_alphanumeric(ByteAfter)
        THEN out.tok.kind = "Token"
        ELSE out.tok = Alpha(ByteAt) /\ pos = pre.pos + 1

\* C12: lex on CR LF gives CRLF and consumes two bytes; lex on a CR followed by another
\* byte, or by nothing, gives CR and consumes one byte.
C12_CRConsumesOne ==
    (Lexed /\ ByteAt = CRb) =>
        IF ByteAfter = LFb
        THEN out.tok = CRLF /\ pos = pre.pos + 2
        ELSE out.tok = CR /\ pos = pre.pos + 1


---------------------------------------------------------------------------
(* The parser's window over the token stream.                               *)

\* the i-th token (0-based) of the stream lex gives from the start of the buffer
StreamToken(b, i) == LexAt(b, 0, i + 1)

RECURSIVE CursorAfter(_, _)
\* the cursor after n lex calls from the start of the buffer
CursorAfter(b, n) == IF n = 0 THEN 0 ELSE lex(b, CursorAfter(b, n - 1)).pos

\* C13: new calls lex twice; after k walks, made directly or inside any operation,
\* curr is the k-th and next the (k+1)-th token of the stream (0-based), lex has been
\* called k+2 times, and the i-th walk returned the (i-1)-th token, the one that was
\* curr just before it.
C13_LookaheadWindow ==
    /\ op = "new" => (nwalk = 0 /\ nlex = 2)
    /\ nlex = nwalk + 2
    /\ curr = StreamToken(buf, nwalk)
    /\ next = StreamToken(buf, nwalk + 1)
    /\ pos = CursorAfter(buf, nwalk + 2)
    /\ op = "walk" =>
        /\ nwalk = pre.nwalk + 1
        /\ out.tok = StreamToken(buf, nwalk - 1)
        /\ out.tok = pre.curr

\* the third walk has returned a token, with three different tokens in play
C13_Witness ==
    /\ op = "walk"
    /\ nwalk = 3
    /\ out.tok # curr
    /\ curr # next
    /\ next # Eof

\* the window and the cursor are as they were before the last call
Untouched == Pst = pre

\* the last call made exactly one advance
OneAdvance ==
    /\ nwalk = pre.nwalk + 1
    /\ nlex = pre.nlex + 1
    /\ curr = pre.next
    /\ next = lex(buf, pre.pos).tok
    /\ pos = lex(buf, pre.pos).pos

\* C14: expect(kind) succeeds, with one advance, exactly when curr equals kind in
\* variant and payload, and expect_token exactly when curr is a run token; a failing
\* one returns an error and leaves curr, next and the cursor as they were; curr_is
\* changes nothing.
C14_ExpectFrame ==
    /\ op = "expect" =>
        /\ out.res = (IF pre.curr = out.arg THEN "ok" ELSE "err")
        /\ (pre.curr.kind # out.arg.kind \/ pre.curr.sub # out.arg.sub
                \/ pre.curr.val # out.arg.val) => out.res = "err"
        /\ out.res = "ok" => (OneAdvance /\ out.tok = pre.curr)
        /\ out.res = "err" => Untouched
    /\ op = "expect_token" =>
        /\ out.res = (IF pre.curr.kind = "Token" THEN "ok" ELSE "err")
        /\ out.res = "ok" => (OneAdvance /\ out.s = pre.curr.val)
        /\ out.res = "err" => Untouched
    /\ op = "curr_is" =>
        /\ Untouched
        /\ out.is = (pre.curr = out.arg)

\* expect(digit 1) has failed on the digit 2 of "HTTP/2.0", consuming nothing
C14_Witness ==
    /\ op = "expect"
    /\ out.arg = Digit(1)
    /\ pre.curr = Digit(2)
    /\ out.res = "err"
    /\ Untouched


RECURSIVE LeadSP(_)
\* how many spaces a text starts with
LeadSP(s) == IF s # <<>> /\ s[1] = SP THEN 1 + LeadSP(Tail(s)) ELSE 0

\* a text without the spaces it starts with
Unspaced(s) == SubSeq(s, LeadSP(s) + 1, Len(s))

\* a valid request line, one header line NAME ":" j spaces VALUE, and the blank line
IsSpacedHead(b) ==
    /\ AllLines(b)
    /\ Len(Lines(b)) = 3
    /\ Lines(b)[3] = <<>>
    /\ LET rl == Lines(b)[1] \o CRLFs IN request_line(rl, new(rl)).res = "ok"
    /\ LET l == Lines(b)[2] IN
        /\ ColonAt(l) > 1
        /\ IsRunText(NameOf(l))
        /\ \A u \in Bytes(Unspaced(AfterColon(l))) : IsValueByte(u)

\* the head b with its one header line given exactly one space after the colon
WithOneSpace(b) ==
    LET l == Lines(b)[2] IN
    Lines(b)[1] \o CRLFs
        \o HeaderLine(NameOf(l), 1, Unspaced(AfterColon(l))) \o CRLFs

\* C15: opt_space makes exactly one advance when curr is a space and otherwise leaves
\* window and cursor as they were; so a header line with j >= 1 spaces after the colon
\* gives a value that starts with j-1 spaces, and one with no space the value it gives
\* with one space.
C15_OptSpaceSkipsOne ==
    /\ op = "opt_space" => IF pre.curr = Space THEN OneAdvance ELSE Untouched
    /\ (op = "headers" /\ OnNew /\ IsSpacedHead(buf)) =>
        LET l == Lines(buf)[2]
            j == LeadSP(AfterColon(l))
            v == Unspaced(AfterColon(l))
            one == WithOneSpace(buf)
        IN /\ out.res = "ok"
           /\ DOMAIN out.headers = {NameOf(l)}
           /\ j >= 1 => out.headers[NameOf(l)] = Spaces(j - 1) \o v
           /\ j = 0 => out.headers = headers(one, new(one)).headers
           /\ headers(one, new(one)).headers[NameOf(l)] = v

\* headers has returned a value with a leading space for a line with two spaces
C15_Witness ==
    /\ op = "headers" /\ OnNew /\ IsSpacedHead(buf)
    /\ LeadSP(AfterColon(Lines(buf)[2])) = 2
    /\ out.res = "ok"
    /\ \E n \in DOMAIN out.headers : out.headers[n] # <<>> /\ out.headers[n][1] = SP


---------------------------------------------------------------------------
(* path                                                                     *)

RECURSIVE PathStop(_, _, _)
\* the token that ends a path read from the i-th upcoming token on: the first
\* space, CRLF, end of input, double quote or bad token
PathStop(b, p, i) ==
    IF Upcoming(b, p, i) \in {Space, CRLF, Eof, DQuote, Bad} THEN Upcoming(b, p, i)
    ELSE PathStop(b, p, i + 1)

\* C16: path returns an error, and no text, whenever the token it comes to is the
\* double quote or a bad token, and request_line then returns that error.
C16_PathReturnsErr ==
    /\ (op = "path" /\ PathStop(buf, pre, 1) \in {DQuote, Bad}) => out.res = "err"
    /\ (/\ op = "request_line" /\ OnNew
        /\ pre.curr.kind = "Token" /\ pre.next = Space
        /\ PathStop(buf, pre, 3) \in {DQuote, Bad}) =>
            /\ out.res = "err"
            /\ out.path = <<>>


---------------------------------------------------------------------------
(* Runs, digits and rendering (the lexer alone).                            *)

\* the bytes the last lex call consumed
Consumed == SubSeq(buf, pre.pos + 1, pos)

RECURSIVE Rendered(_)
\* the renderings of a sequence of tokens, concatenated
Rendered(ts) == IF ts = <<>> THEN <<>> ELSE to_string(Head(ts)).s \o Rendered(Tail(ts))

\* no NUL and no byte that lex turns into a bad token
IsClean(b) == \A u \in Bytes(b) : lex(<<u>>, 0).tok \notin {Bad, Eof}

\* C18: the rendering of a token lex returns, other than Bad and Eof, is the bytes lex
\* consumed for it; so the renderings of the tokens of a buffer without bad bytes and
\* NUL, concatenated, give the buffer back.
C18_RenderRoundTrip ==
    /\ (Lexed /\ out.tok \notin {Bad, Eof}) =>
        /\ ~to_string(out.tok).panic
        /\ to_string(out.tok).s = Consumed
    /\ IsClean(buf) => Rendered(TokensBeforeEof(buf, 0)) = buf


---------------------------------------------------------------------------
(* Progress                                                                 *)

\* C19: a lex call made with unread bytes left consumes at least one byte, so the
\* first n+1 lex calls on a buffer of n bytes include one that returns Eof (both are
\* facts of the buffer alone, checked when the parser is built over it); and path,
\* request_line and headers each end, with a result, an error or a panic, after at
\* most as many walks as there are bytes still unread plus three.
C19_Progress ==
    /\ op = "new" =>
        /\ \A c \in 0..(Len(buf) - 1) : lex(buf, c).pos > c
        /\ \E i \in 0..Len(buf) : StreamToken(buf, i) = Eof
    /\ op \in {"walk", "expect", "expect_token", "opt_space", "method", "http_1_1"} =>
        ((pre.pos < Len(buf) /\ nlex > pre.nlex) => pos > pre.pos)
    /\ op \in {"path", "request_line", "headers"} =>
        /\ out.res \in {"ok", "err", "panic"}
        /\ nwalk - pre.nwalk <= (Len(buf) - pre.pos) + 3
        /\ nwalk - pre.nwalk <= Len(buf) + 3

\* headers has ended on a buffer that stops inside a header value, after walking
\* over every token of it
C19_Witness ==
    /\ op = "headers" /\ OnNew
    /\ out.res = "panic"
    /\ pos = Len(buf)
    /\ curr = Eof
    /\ buf[Len(buf)] = 97
    /\ nwalk >= 12

=============================================================================
